---- MODULE Spec2Model ----
(***************************************************************************)
(* Model of the RLM bridge server (src/rlm_bridge/server.py): the message  *)
(* splitter messages_to_context, the invoker run_rlm_completion and the    *)
(* POST /completion handler.                                               *)
(*                                                                         *)
(* Text is a sequence of one-character strings.  A JSON / Python value is  *)
(* a record [t, s, n]: t is its type ("missing" = key or attribute absent, *)
(* "null" = None, "str", "num"), s its text, n its number.                 *)
(***************************************************************************)
EXTENDS Integers, Sequences, FiniteSets, TLC

\* ------------------------------------------------------------------ bounds

\* Requests that may be in flight together.
NumRequests == 2
\* Longest message sequence messages_to_context is called on directly.
MaxMsgs == 3
\* Longest message sequence a request carries.
MaxBodyMsgs == 2
\* Characters by which the long query exceeds the mock's cut.
Overrun == 1

\* query[:100] in the mock text.
MockQueryChars == 100

Reqs == 1..NumRequests

\* ------------------------------------------------------------------ values

Missing == [t |-> "missing", s |-> <<>>, n |-> 0]
Null == [t |-> "null", s |-> <<>>, n |-> 0]
Str(x) == [t |-> "str", s |-> x, n |-> 0]
Num(k) == [t |-> "num", s |-> <<>>, n |-> k]

Digit(d) == <<"0", "1", "2", "3", "4", "5", "6", "7", "8", "9">>[d + 1]

RECURSIVE Decimal(_)
Decimal(k) ==
    IF k < 0 THEN <<"-">> \o Decimal(0 - k)
    ELSE IF k < 10 THEN <<Digit(k)>>
    ELSE Decimal(k \div 10) \o <<Digit(k % 10)>>

\* What an f-string writes for {v}.
PyFormat(v) ==
    CASE v.t = "str" -> v.s
      [] v.t = "num" -> Decimal(v.n)
      [] OTHER -> <<"N", "o", "n", "e">>

\* The name Python gives v's type in an error message.
PyTypeName(v) ==
    CASE v.t = "str" -> "str"
      [] v.t = "num" -> "int"
      [] OTHER -> "NoneType"

LowerCase == <<"a", "b", "c", "d", "e", "f", "g", "h", "i", "j", "k", "l", "m",
               "n", "o", "p", "q", "r", "s", "t", "u", "v", "w", "x", "y", "z">>
UpperCase == <<"A", "B", "C", "D", "E", "F", "G", "H", "I", "J", "K", "L", "M",
               "N", "O", "P", "Q", "R", "S", "T", "U", "V", "W", "X", "Y", "Z">>

UpperChar(c) ==
    IF \E i \in 1..Len(LowerCase) : LowerCase[i] = c
    THEN UpperCase[CHOOSE i \in 1..Len(LowerCase) : LowerCase[i] = c]
    ELSE c

\* str.upper()
Upper(x) == [i \in 1..Len(x) |-> UpperChar(x[i])]

\* dict.get(key, default): the default only when the key is missing.
DictGet(v, default) == IF v.t = "missing" THEN default ELSE v

\* ------------------------------------------------------------------ defaults

DEFAULT_BACKEND == Str(<<"o", "p", "e", "n", "a", "i">>)
DEFAULT_MODEL == Str(<<"g", "p", "t", "-", "4", "o", "-", "m", "i", "n", "i">>)
DEFAULT_MAX_RECURSION == Num(10)
DefaultEnvironment == Str(<<"l", "o", "c", "a", "l">>)

\* RlmConfig(...)
RlmConfig(backend, model_name, max_recursion_depth, environment) ==
    [backend |-> backend, model_name |-> model_name,
     max_recursion_depth |-> max_recursion_depth, environment |-> environment]

\* RlmConfig() with every field at its dataclass default.
RlmConfigDefaults ==
    RlmConfig(DEFAULT_BACKEND, DEFAULT_MODEL, DEFAULT_MAX_RECURSION, DefaultEnvironment)

\* CompletionResponse(text, usage, metadata); usage.t and metadata.t tell
\* None ("null") from a dict.
NoUsage == [t |-> "null", promptTokens |-> Missing, completionTokens |-> Missing]
NoMetadata == [t |-> "null", recursionDepth |-> Missing, totalCalls |-> Missing]
MockMetadata == [t |-> "mock", recursionDepth |-> Missing, totalCalls |-> Missing]
CompletionResponse(text, usage, metadata) ==
    [text |-> text, usage |-> usage, metadata |-> metadata]
NoCompletion == CompletionResponse(Missing, NoUsage, NoMetadata)

\* ------------------------------------------------------------------ messages_to_context

RolePrefix == <<"[">>
RoleSuffix == <<"]", ":", " ">>
PartSeparator == <<"\n", "\n">>

\* msg.get("role", "user"), msg.get("content", "")
RoleOf(msg) == DictGet(msg.role, Str(<<"u", "s", "e", "r">>))
ContentOf(msg) == DictGet(msg.content, Str(<<>>))

\* f"[{role.upper()}]: {content}"
ContextPart(msg) ==
    RolePrefix \o Upper(RoleOf(msg).s) \o RoleSuffix \o PyFormat(ContentOf(msg))

\* "\n\n".join(context_parts)
RECURSIVE Join(_)
Join(parts) ==
    IF parts = <<>> THEN <<>>
    ELSE IF Len(parts) = 1 THEN parts[1]
    ELSE parts[1] \o PartSeparator \o Join(Tail(parts))

\* A slip in the slice: the last message is rendered into the context too.
HistoryAll(messages) == messages

\* messages[:-1]
History(messages) == SubSeq(messages, 1, Len(messages) - 1)

\* role.upper() raises AttributeError unless role is a str.
UpperRaises(msg) == RoleOf(msg).t # "str"

\* What the call did: returned (context, query), or raised with str(e) = err.
SplitReturn(context, query) ==
    [raised |-> FALSE, err |-> "", context |-> context, query |-> query]
SplitRaise(err) ==
    [raised |-> TRUE, err |-> err, context |-> <<>>, query |-> Missing]

messages_to_context(messages) ==
    IF messages = <<>> THEN SplitReturn(<<>>, Str(<<>>))
    ELSE LET hist == History(messages)
             bad == {i \in 1..Len(hist) : UpperRaises(hist[i])}
         IN IF bad # {}
            THEN LET first == CHOOSE i \in bad : \A j \in bad : i <= j
                 IN SplitRaise("'" \o PyTypeName(RoleOf(hist[first]))
                               \o "' object has no attribute 'upper'")
            ELSE SplitReturn(Join([i \in 1..Len(hist) |-> ContextPart(hist[i])]),
                             ContentOf(messages[Len(messages)]))

\* ------------------------------------------------------------------ run_rlm_completion

MockPrefix == <<"[", "R", "L", "M", " ", "M", "O", "C", "K", "]", " ", "W", "o", "u",
                "l", "d", " ", "p", "r", "o", "c", "e", "s", "s", " ", "q", "u", "e",
                "r", "y", ":", " ">>
MockSuffix == <<".", ".", ".">>
ContextHeader == <<"P", "r", "e", "v", "i", "o", "u", "s", " ", "c", "o", "n", "v", "e",
                   "r", "s", "a", "t", "i", "o", "n", " ", "c", "o", "n", "t", "e", "x",
                   "t", ":", "\n">>
RequestHeader == <<"\n", "\n", "C", "u", "r", "r", "e", "n", "t", " ", "r", "e", "q",
                   "u", "e", "s", "t", ":", "\n">>

\* What the engine library does when this call reaches it.
\*   stage "import":      `from rlm import RLM` raises ImportError
\*   stage "construct":   RLM(...) raises an exception of class `kind`
\*   stage "completion":  rlm.completion(...) raises an exception of class `kind`
\*   stage "return":      rlm.completion(...) returns `result`
NoEngineResult ==
    [response |-> Missing, prompt_tokens |-> Missing, completion_tokens |-> Missing,
     recursion_depth |-> Missing, total_calls |-> Missing]
EngineRaises(stage, kind, msg) ==
    [stage |-> stage, kind |-> kind, msg |-> msg, result |-> NoEngineResult]
EngineReturns(result) ==
    [stage |-> "return", kind |-> "", msg |-> "", result |-> result]

\* x[:k]
Take(x, k) == SubSeq(x, 1, IF Len(x) < k THEN Len(x) ELSE k)

\* getattr(result, name, default)
GetAttr(v, default) == IF v.t = "missing" THEN default ELSE v

\* The keyword arguments of RLM(...), lines 98-105.
EngineKwargs(config) ==
    [backend |-> config.backend, model_name |-> config.model_name,
     max_recursion_depth |-> config.max_recursion_depth]

\* A slip in the branch: the template is used whatever the context.
FullPromptAlwaysTemplate(context, query) ==
    Str(ContextHeader \o context \o RequestHeader \o PyFormat(query))

\* Lines 109-116.
FullPrompt(context, query) ==
    IF context # <<>>
    THEN Str(ContextHeader \o context \o RequestHeader \o PyFormat(query))
    ELSE query

\* What the call did: returned `response`, or raised with str(e) = err; the
\* engines it constructed and the prompts it asked completions for.
InvokeReturn(response, constructed, prompts) ==
    [raised |-> FALSE, err |-> "", response |-> response,
     constructed |-> constructed, prompts |-> prompts]
InvokeRaise(err, constructed, prompts) ==
    [raised |-> TRUE, err |-> err, response |-> NoCompletion,
     constructed |-> constructed, prompts |-> prompts]

\* The `except ImportError` clause, lines 133-139; query[:100] raises
\* TypeError unless query can be sliced.
MockFallback(query, constructed, prompts) ==
    IF query.t = "str"
    THEN InvokeReturn(
            CompletionResponse(
                Str(MockPrefix \o Take(query.s, MockQueryChars) \o MockSuffix),
                NoUsage, MockMetadata),
            constructed, prompts)
    ELSE InvokeRaise("'" \o PyTypeName(query) \o "' object is not subscriptable",
                     constructed, prompts)

\* The except clauses, lines 133-142, for an exception of class `kind`
\* raised inside the try block.
HandleRaise(kind, msg, query, constructed, prompts) ==
    IF kind = "ImportError"
    THEN MockFallback(query, constructed, prompts)
    ELSE InvokeRaise(msg, constructed, prompts)

\* A slip in a default: totalCalls falls back to 0 like its neighbours.
SuccessMappingZeroCalls(result) ==
    CompletionResponse(
        result.response,
        [t |-> "obj",
         promptTokens |-> GetAttr(result.prompt_tokens, Num(0)),
         completionTokens |-> GetAttr(result.completion_tokens, Num(0))],
        [t |-> "obj",
         recursionDepth |-> GetAttr(result.recursion_depth, Num(0)),
         totalCalls |-> GetAttr(result.total_calls, Num(0))])

\* Lines 121-131.
SuccessMapping(result) ==
    CompletionResponse(
        result.response,
        [t |-> "obj",
         promptTokens |-> GetAttr(result.prompt_tokens, Num(0)),
         completionTokens |-> GetAttr(result.completion_tokens, Num(0))],
        [t |-> "obj",
         recursionDepth |-> GetAttr(result.recursion_depth, Num(0)),
         totalCalls |-> GetAttr(result.total_calls, Num(1))])

run_rlm_completion(context, query, config, engine) ==
    LET kwargs == <<EngineKwargs(config)>>
        prompt == <<FullPrompt(context, query)>>
    IN CASE engine.stage = "import" ->
              HandleRaise("ImportError", engine.msg, query, <<>>, <<>>)
         [] engine.stage = "construct" ->
              HandleRaise(engine.kind, engine.msg, query, kwargs, <<>>)
         [] engine.stage = "completion" ->
              HandleRaise(engine.kind, engine.msg, query, kwargs, prompt)
         [] OTHER ->
              IF engine.result.response.t = "missing"
              THEN HandleRaise("AttributeError",
                               "result object has no attribute 'response'",
                               query, kwargs, prompt)
              ELSE InvokeReturn(SuccessMapping(engine.result), kwargs, prompt)

\* ------------------------------------------------------------------ requests

\* A message of the request: a JSON object whose role and content are each
\* missing, null, a string or a number.
Message(role, content) == [role |-> role, content |-> content]

\* The request's "messages" value: t is "missing", "null" or "list".
MessagesMissing == [t |-> "missing", items |-> <<>>]
MessagesNull == [t |-> "null", items |-> <<>>]
MessagesList(items) == [t |-> "list", items |-> items]

\* The request's "rlmConfig" value: t is "missing", "null" or "obj".
ConfigObject(backend, modelName, maxRecursionDepth, environment) ==
    [t |-> "obj", backend |-> backend, modelName |-> modelName,
     maxRecursionDepth |-> maxRecursionDepth, environment |-> environment]
ConfigMissing ==
    [t |-> "missing", backend |-> Missing, modelName |-> Missing,
     maxRecursionDepth |-> Missing, environment |-> Missing]
ConfigNull ==
    [t |-> "null", backend |-> Missing, modelName |-> Missing,
     maxRecursionDepth |-> Missing, environment |-> Missing]
ConfigEmpty == ConfigObject(Missing, Missing, Missing, Missing)

\* The body of a POST /completion request.  kind is
\*   "absent"  no body was sent, and request.get_json() returns None
\*   "refused"  no body was sent, and request.get_json() raises (which of
\*             the two happens is the library's choice, by its version and
\*             the request's Content-Type)
\*   "falsy"   a JSON value that is not an object and is false in Python
\*             (null, false, 0, "", [])
\*   "array"   a non-empty JSON array
\*   "object"  a JSON object with the keys model, messages, rlmConfig,
\*             each possibly missing
JsonObject(model, messages, rlmConfig) ==
    [kind |-> "object", model |-> model, messages |-> messages, rlmConfig |-> rlmConfig]
NonObject(kind) ==
    [kind |-> kind, model |-> Missing, messages |-> MessagesMissing,
     rlmConfig |-> ConfigMissing]

\* {} is the object with no key at all.
IsEmptyObject(b) ==
    /\ b.kind = "object"
    /\ b.model.t = "missing"
    /\ b.messages.t = "missing"
    /\ b.rlmConfig.t = "missing"

\* `not data`, line 175: None, an empty container, 0, "" and false.
NotData(b) == b.kind \in {"absent", "falsy"} \/ IsEmptyObject(b)

\* `not messages`, line 179, of data.get("messages", []).
NotMessages(m) == m.t \in {"missing", "null"} \/ m.items = <<>>

\* An HTTP response: jsonify({"error": error}), status  or  jsonify(asdict(payload)).
HttpError(status, error) ==
    [status |-> status, isError |-> TRUE, error |-> error, payload |-> NoCompletion]
HttpOk(payload) ==
    [status |-> 200, isError |-> FALSE, error |-> "", payload |-> payload]

\* ------------------------------------------------------------------ input sets

Hi == <<"h", "i">>
\* A text longer than the mock's cut, its tail unlike its head.
Long == [i \in 1..(MockQueryChars + Overrun) |-> IF i <= MockQueryChars THEN "x" ELSE "y"]

RoleVals == {Missing, Null, Str(<<"a", "I">>)}
ContentVals == {Missing, Null, Num(7), Str(Hi), Str(Long)}
Messages == {Message(r, c) : r \in RoleVals, c \in ContentVals}
MessageSeqs == UNION {[1..k -> Messages] : k \in 0..MaxMsgs}
BodyMessageSeqs == UNION {[1..k -> Messages] : k \in 0..MaxBodyMsgs}

ConfigObjects ==
    {ConfigObject(b, m, d, e) :
        b \in {Missing, Str(<<"c", "l">>)},
        m \in {Missing, Str(<<"m", "1">>)},
        d \in {Missing, Null, Num(0), Num(3)},
        e \in {Missing, Str(<<"d", "o", "c", "k", "e", "r">>)}}

OneMessage == <<Message(Str(<<"u", "s", "e", "r">>), Str(Hi))>>

\* The request bodies of the sequential specification: every message
\* sequence under the default config, every config under one message, and
\* the bodies without usable messages.
Bodies ==
    {NonObject(k) : k \in {"absent", "refused", "falsy", "array"}}
    \cup {JsonObject(Missing, MessagesList(ms), ConfigMissing) : ms \in BodyMessageSeqs}
    \cup {JsonObject(Missing, MessagesList(OneMessage), c) :
            c \in ConfigObjects \cup {ConfigNull}}
    \cup {JsonObject(mo, me, c) :
            mo \in {Missing, Str(<<"m", "1">>)},
            me \in {MessagesMissing, MessagesNull, MessagesList(<<>>)},
            c \in {ConfigMissing, ConfigEmpty}}

\* What rlm.completion may return: a response with any of the four optional
\* attributes present or missing, or an object without a response.
EngineResults ==
    {NoEngineResult} \cup
    [response : {Str(<<"o", "k">>)},
     prompt_tokens : {Missing, Num(5)},
     completion_tokens : {Missing, Num(6)},
     recursion_depth : {Missing, Num(2)},
     total_calls : {Missing, Num(4)}]

ExceptionKinds == {"ImportError", "RuntimeError"}

EngineOutcomes ==
    {EngineRaises("import", "ImportError", "No module named 'rlm'")}
    \cup {EngineRaises(st, k, "engine failed") :
            st \in {"construct", "completion"}, k \in ExceptionKinds}
    \cup {EngineReturns(res) : res \in EngineResults}

\* The bodies and engine behaviours of the concurrent specification.
ConcBodies ==
    {NonObject("absent"),
     NonObject("refused"),
     JsonObject(Missing, MessagesList(<<>>), ConfigMissing),
     JsonObject(Missing, MessagesList(OneMessage), ConfigMissing),
     JsonObject(Missing, MessagesList(OneMessage), ConfigNull),
     JsonObject(Missing, MessagesList(<<Message(Null, Str(Hi))>> \o OneMessage),
                ConfigMissing),
     JsonObject(Missing, MessagesList(OneMessage \o OneMessage), ConfigMissing)}

ConcOutcomes ==
    {EngineRaises("import", "ImportError", "No module named 'rlm'"),
     EngineRaises("construct", "RuntimeError", "engine failed"),
     EngineRaises("completion", "RuntimeError", "engine failed"),
     EngineReturns([response |-> Str(<<"o", "k">>), prompt_tokens |-> Num(5),
                    completion_tokens |-> Missing, recursion_depth |-> Missing,
                    total_calls |-> Missing])}

\* ------------------------------------------------------------------ state

VARIABLES
    pc,         \* pc[r]: where request r's handler stands
    body,       \* body[r]: the request's body
    config,     \* config[r]: the RlmConfig the handler built
    split,      \* split[r]: what messages_to_context did
    engine,     \* engine[r]: what the engine library did for this request
    invoked,    \* invoked[r]: what run_rlm_completion did
    responses,  \* responses[r]: the HTTP responses sent for the request
    steps,      \* steps[r]: the handler's steps so far, in order
    unit        \* a direct call of messages_to_context: its argument and result

vars == <<pc, body, config, split, engine, invoked, responses, steps, unit>>

NoConfig == RlmConfig(Missing, Missing, Missing, Missing)
NoSplit == SplitReturn(<<>>, Missing)
NoEngine == EngineRaises("none", "", "")
NoInvoke == InvokeReturn(NoCompletion, <<>>, <<>>)
NoUnit == [pc |-> "none", messages |-> <<>>, ret |-> NoSplit]

HandlerInit ==
    /\ pc = [r \in Reqs |-> "idle"]
    /\ body = [r \in Reqs |-> NonObject("absent")]
    /\ config = [r \in Reqs |-> NoConfig]
    /\ split = [r \in Reqs |-> NoSplit]
    /\ engine = [r \in Reqs |-> NoEngine]
    /\ invoked = [r \in Reqs |-> NoInvoke]
    /\ responses = [r \in Reqs |-> <<>>]
    /\ steps = [r \in Reqs |-> <<>>]

Init == HandlerInit /\ unit = NoUnit

\* The handler returns `resp`: the response is sent and the request is over.
Respond(r, resp, step) ==
    /\ responses' = [responses EXCEPT ![r] = Append(@, resp)]
    /\ steps' = [steps EXCEPT ![r] = Append(@, step)]
    /\ pc' = [pc EXCEPT ![r] = "done"]

\* The transport hands request r, with body b, to completion().
Receive(r, b) ==
    /\ pc[r] = "idle"
    /\ pc' = [pc EXCEPT ![r] = "received"]
    /\ body' = [body EXCEPT ![r] = b]
    /\ UNCHANGED <<config, split, engine, invoked, responses, steps, unit>>

\* Lines 184-189.
ParseConfig(c) ==
    RlmConfig(DictGet(c.backend, DEFAULT_BACKEND),
              DictGet(c.modelName, DEFAULT_MODEL),
              DictGet(c.maxRecursionDepth, DEFAULT_MAX_RECURSION),
              DictGet(c.environment, DefaultEnvironment))

\* Lines 173-191 (and 201-203 when they raise): the body is read and checked
\* and the config parsed.
Decode(r) ==
    /\ pc[r] = "received"
    /\ LET b == body[r] IN
        IF b.kind = "refused"
        THEN /\ Respond(r, HttpError(500, "415 Unsupported Media Type"), "decode")
             /\ UNCHANGED config
        ELSE IF NotData(b)
        THEN /\ Respond(r, HttpError(400, "No JSON body provided"), "decode")
             /\ UNCHANGED config
        ELSE IF b.kind # "object"
        THEN /\ Respond(r, HttpError(500, "'list' object has no attribute 'get'"),
                        "decode")
             /\ UNCHANGED config
        ELSE IF NotMessages(b.messages)
        THEN /\ Respond(r, HttpError(400, "No messages provided"), "decode")
             /\ UNCHANGED config
        ELSE IF b.rlmConfig.t = "null"
        THEN /\ Respond(r, HttpError(500, "'NoneType' object has no attribute 'get'"),
                        "decode")
             /\ UNCHANGED config
        ELSE /\ config' = [config EXCEPT ![r] = ParseConfig(b.rlmConfig)]
             /\ steps' = [steps EXCEPT ![r] = Append(@, "decode")]
             /\ pc' = [pc EXCEPT ![r] = "decoded"]
             /\ UNCHANGED responses
    /\ UNCHANGED <<body, split, engine, invoked, unit>>

\* Line 194 (and 201-203 when it raises).
Split(r) ==
    /\ pc[r] = "decoded"
    /\ LET ret == messages_to_context(body[r].messages.items) IN
        /\ split' = [split EXCEPT ![r] = ret]
        /\ IF ret.raised
           THEN Respond(r, HttpError(500, ret.err), "split")
           ELSE /\ steps' = [steps EXCEPT ![r] = Append(@, "split")]
                /\ pc' = [pc EXCEPT ![r] = "split"]
                /\ UNCHANGED responses
    /\ UNCHANGED <<body, config, engine, invoked, unit>>

\* Line 197 (and 201-203 when it raises): run_rlm_completion, with what the
\* engine library does, e, under it.
Invoke(r, e) ==
    /\ pc[r] = "split"
    /\ LET ret == run_rlm_completion(split[r].context, split[r].query, config[r], e) IN
        /\ engine' = [engine EXCEPT ![r] = e]
        /\ invoked' = [invoked EXCEPT ![r] = ret]
        /\ IF ret.raised
           THEN Respond(r, HttpError(500, ret.err), "invoke")
           ELSE /\ steps' = [steps EXCEPT ![r] = Append(@, "invoke")]
                /\ pc' = [pc EXCEPT ![r] = "invoked"]
                /\ UNCHANGED responses
    /\ UNCHANGED <<body, config, split, unit>>

\* Line 199.
Encode(r) ==
    /\ pc[r] = "invoked"
    /\ Respond(r, HttpOk(invoked[r].response), "encode")
    /\ UNCHANGED <<body, config, split, engine, invoked, unit>>

\* One handler at a time, over every body and engine behaviour.
Next ==
    \/ \E b \in Bodies : Receive(1, b)
    \/ Decode(1)
    \/ Split(1)
    \/ \E e \in EngineOutcomes : Invoke(1, e)
    \/ Encode(1)

Spec == Init /\ [][Next]_vars

\* Handlers of concurrent requests, interleaved step by step.
NextConc ==
    \E r \in Reqs :
        \/ \E b \in ConcBodies : Receive(r, b)
        \/ Decode(r)
        \/ Split(r)
        \/ \E e \in ConcOutcomes : Invoke(r, e)
        \/ Encode(r)

SpecConc == Init /\ [][NextConc]_vars

\* messages_to_context called directly on any message sequence.
InitUnit ==
    /\ HandlerInit
    /\ \E ms \in MessageSeqs : unit = [pc |-> "call", messages |-> ms, ret |-> NoSplit]

CallSplit ==
    /\ unit.pc = "call"
    /\ unit' = [unit EXCEPT !.pc = "returned", !.ret = messages_to_context(unit.messages)]
    /\ UNCHANGED <<pc, body, config, split, engine, invoked, responses, steps>>

NextUnit == CallSplit

SpecUnit == InitUnit /\ [][NextUnit]_vars

\* ================================================================== claims

\* ------------------------------------------------------------------ C4

\* C is the upper case of c.
IsUpperOf(c, C) ==
    \/ \E i \in 1..Len(LowerCase) : LowerCase[i] = c /\ UpperCase[i] = C
    \/ (\A i \in 1..Len(LowerCase) : LowerCase[i] # c) /\ C = c

\* The role and content a message is rendered with.
RenderedRole(msg) == IF msg.role.t = "missing" THEN <<"u", "s", "e", "r">> ELSE msg.role.s
RenderedContent(msg) == IF msg.content.t = "missing" THEN <<>> ELSE PyFormat(msg.content)
RenderedLen(msg) == 4 + Len(RenderedRole(msg)) + Len(RenderedContent(msg))

\* line is "[{UPPERCASED role}]: {content}" for msg.
IsRenderedLine(msg, line) ==
    LET role == RenderedRole(msg)
        content == RenderedContent(msg)
    IN /\ Len(line) = RenderedLen(msg)
       /\ line[1] = "["
       /\ \A i \in 1..Len(role) : IsUpperOf(role[i], line[1 + i])
       /\ line[2 + Len(role)] = "]"
       /\ line[3 + Len(role)] = ":"
       /\ line[4 + Len(role)] = " "
       /\ SubSeq(line, 5 + Len(role), Len(line)) = content

\* Where message i's line starts in the context, less one.
RECURSIVE LineOffset(_, _)
LineOffset(messages, i) ==
    IF i = 1 THEN 0
    ELSE LineOffset(messages, i - 1) + RenderedLen(messages[i - 1]) + 2

\* The query a sequence's last message gives.
QueryOfLast(messages) ==
    LET last == messages[Len(messages)]
    IN IF last.content.t = "missing" THEN Str(<<>>) ELSE last.content

Reported(v, default) == IF v.t = "missing" THEN Num(default) ELSE v

\* C7: for every result the engine returns, promptTokens, completionTokens,
\* recursionDepth and totalCalls are each the value the engine reported, or
\* 0, 0, 0 and 1 when it reported none, each on its own; and the invocation
\* does not fail, whichever of them are missing.
C7_SuccessMapping ==
    \A r \in Reqs :
        (engine[r].stage = "return" /\ engine[r].result.response.t # "missing") =>
            LET res == engine[r].result
                out == invoked[r].response
            IN /\ ~invoked[r].raised
               /\ out.usage.t = "obj"
               /\ out.metadata.t = "obj"
               /\ out.usage.promptTokens = Reported(res.prompt_tokens, 0)
               /\ out.usage.completionTokens = Reported(res.completion_tokens, 0)
               /\ out.metadata.recursionDepth = Reported(res.recursion_depth, 0)
               /\ out.metadata.totalCalls = Reported(res.total_calls, 1)

\* The engine returned a result reporting its completion tokens alone, and
\* the request was answered.
C7_Witness ==
    \E r \in Reqs :
        /\ pc[r] = "done"
        /\ engine[r].stage = "return"
        /\ engine[r].result.response.t = "str"
        /\ engine[r].result.prompt_tokens.t = "missing"
        /\ engine[r].result.completion_tokens = Num(6)
        /\ engine[r].result.recursion_depth.t = "missing"
        /\ engine[r].result.total_calls.t = "missing"
        /\ responses[r][1].status = 200
        /\ responses[r][1].payload.metadata.totalCalls = Num(1)

\* ------------------------------------------------------------------ C8

ContextLabel == <<"P", "r", "e", "v", "i", "o", "u", "s", " ", "c", "o", "n", "v", "e",
                  "r", "s", "a", "t", "i", "o", "n", " ", "c", "o", "n", "t", "e", "x",
                  "t", ":">>
RequestLabel == <<"C", "u", "r", "r", "e", "n", "t", " ", "r", "e", "q", "u", "e", "s",
                  "t", ":">>

\* p is "Previous conversation context:\n{ctx}\n\nCurrent request:\n{q}".
IsTemplate(p, ctx, q) ==
    LET a == Len(ContextLabel)
        b == a + 1 + Len(ctx)
        c == b + 2 + Len(RequestLabel) + 1
    IN /\ p.t = "str"
       /\ SubSeq(p.s, 1, a) = ContextLabel
       /\ p.s[a + 1] = "\n"
       /\ SubSeq(p.s, a + 2, b) = ctx
       /\ p.s[b + 1] = "\n"
       /\ p.s[b + 2] = "\n"
       /\ SubSeq(p.s, b + 3, c - 1) = RequestLabel
       /\ p.s[c] = "\n"
       /\ q.t = "str" => SubSeq(p.s, c + 1, Len(p.s)) = q.s
       /\ q.t = "null" => SubSeq(p.s, c + 1, Len(p.s)) = <<"N", "o", "n", "e">>
       /\ q.t = "num" => Len(p.s) > c

\* C8: whenever the engine is asked for a completion, it is asked once, for
\* the two-section template around context and query when the context is
\* not empty and for the query itself when it is empty; and it is asked for
\* the bare query exactly when the request had one message.
C8_PromptAssembly ==
    \A r \in Reqs :
        invoked[r].prompts # <<>> =>
            LET p == invoked[r].prompts[1]
                ctx == split[r].context
                q == split[r].query
            IN /\ Len(invoked[r].prompts) = 1
               /\ ctx # <<>> => IsTemplate(p, ctx, q)
               /\ ctx = <<>> => p = q
               /\ (p = q) <=> (Len(body[r].messages.items) = 1)

\* The engine was asked for the template of a two-message request whose
\* first message had no role.
C8_Witness ==
    \E r \in Reqs :
        /\ Len(body[r].messages.items) = 2
        /\ invoked[r].prompts # <<>>
        /\ split[r].context = <<"[", "U", "S", "E", "R", "]", ":", " ", "h", "i">>
        /\ split[r].query = Str(Hi)
        /\ Len(invoked[r].prompts[1].s) = Len(ContextLabel) + 1 + 10 + 2 + Len(RequestLabel) + 1 + 2

\* The engine was asked for the bare query of a one-message request.
C8_WitnessBare ==
    \E r \in Reqs :
        /\ Len(body[r].messages.items) = 1
        /\ invoked[r].prompts = <<Str(Hi)>>

\* ------------------------------------------------------------------ C1

\* The handler has finished its decode step for request r.
Decoded(r) == steps[r] # <<>>

\* The request was turned away in the decode step.
RejectedInDecode(r) == pc[r] = "done" /\ steps[r] = <<"decode">>

\* The engine was neither constructed nor asked for a completion.
EngineUntouched(r) ==
    /\ engine[r] = NoEngine
    /\ invoked[r].constructed = <<>>
    /\ invoked[r].prompts = <<>>

\* The body is a JSON object without a non-empty messages array: the key is
\* missing, or the array is empty.
LacksMessages(b) ==
    /\ b.kind = "object"
    /\ b.messages.t = "missing" \/ (b.messages.t = "list" /\ b.messages.items = <<>>)

\* C1: a request without a body (that the handler gets to see as None) is
\* answered 400 {"error": "No JSON body provided"}; a JSON object without a
\* non-empty messages array is answered 400 {"error": "No messages
\* provided"}; in both cases the engine is never invoked.
C1_ClientErrors ==
    \A r \in Reqs :
        Decoded(r) =>
            /\ body[r].kind = "absent" =>
                 /\ responses[r] = <<HttpError(400, "No JSON body provided")>>
                 /\ EngineUntouched(r)
            /\ LacksMessages(body[r]) =>
                 /\ responses[r] = <<HttpError(400, "No messages provided")>>
                 /\ EngineUntouched(r)

\* ------------------------------------------------------------------ C2

\* The engine itself raised, in its construction or in its completion call,
\* on a request whose query is a string.
EngineFailed(r) ==
    /\ engine[r].stage \in {"construct", "completion"}
    /\ split[r].query.t = "str"

\* C2: every failure the engine raises in a real invocation leaves
\* run_rlm_completion as that failure, and the request is answered 500
\* {"error": the failure's message}, never 200 and never with a mock.
C2_EngineFailurePropagates ==
    \A r \in Reqs :
        EngineFailed(r) =>
            /\ invoked[r].raised
            /\ invoked[r].err = engine[r].msg
            /\ invoked[r].response.metadata.t # "mock"
            /\ pc[r] = "done" => responses[r] = <<HttpError(500, engine[r].msg)>>

\* ------------------------------------------------------------------ C3

\* The first k characters of x, all of x when it is shorter.
FirstChars(x, k) == [i \in 1..(IF Len(x) < k THEN Len(x) ELSE k) |-> x[i]]

\* C3: with the engine library not resolvable, run_rlm_completion does not
\* fail; it returns metadata {mock: true}, no usage, and the text
\* "[RLM MOCK] Would process query: " + the first 100 characters of the
\* query + "...".
C3_MockFallback ==
    \A r \in Reqs :
        engine[r].stage = "import" =>
            LET out == invoked[r].response
                q == split[r].query
            IN /\ ~invoked[r].raised
               /\ out.metadata = MockMetadata
               /\ out.usage = NoUsage
               /\ out.text.t = "str"
               /\ out.text.s = MockPrefix \o FirstChars(PyFormat(q), 100) \o <<".", ".", ".">>

\* ------------------------------------------------------------------ C5

\* The handler has called messages_to_context for request r.
SplitCalled(r) == Len(steps[r]) >= 2

\* C5: messages_to_context never raises and returns a pair of strings,
\* whatever the messages' role and content are (missing, null, not a
\* string); so no request with a non-empty messages array fails in the
\* split step.
C5_SplitNeverFails ==
    \A r \in Reqs :
        SplitCalled(r) =>
            /\ ~split[r].raised
            /\ split[r].query.t = "str"
            /\ ~(pc[r] = "done" /\ steps[r] = <<"decode", "split">>)

\* ------------------------------------------------------------------ C6

\* The request carries a non-empty messages array.
HasMessages(b) ==
    b.kind = "object" /\ b.messages.t = "list" /\ b.messages.items # <<>>

\* The config field decoded from a request's field.
Substituted(v, default) == IF v.t = "missing" THEN default ELSE v

\* C6: for every request with a non-empty messages array the config is
\* built field by field, each field the request's rlmConfig value when
\* present and the process-wide default when missing; a request whose
\* rlmConfig is absent, null or {} gets the defaults in every field; and no
\* such request is rejected for its config.
C6_ConfigDefaults ==
    \A r \in Reqs :
        (Decoded(r) /\ HasMessages(body[r])) =>
            LET c == body[r].rlmConfig IN
            /\ ~RejectedInDecode(r)
            /\ config[r].backend = Substituted(c.backend, DEFAULT_BACKEND)
            /\ config[r].model_name = Substituted(c.modelName, DEFAULT_MODEL)
            /\ config[r].max_recursion_depth =
                 Substituted(c.maxRecursionDepth, DEFAULT_MAX_RECURSION)
            /\ config[r].environment = Substituted(c.environment, Str(<<"l", "o", "c", "a", "l">>))
            /\ (c.t \in {"missing", "null"} \/ c = ConfigEmpty) =>
                 config[r] = RlmConfigDefaults

\* ------------------------------------------------------------------ C9

\* C9: every config built for a request and handed to the engine has a
\* maxRecursionDepth that is an integer >= 1.
C9_RecursionDepthPositive ==
    \A r \in Reqs :
        \A i \in 1..Len(invoked[r].constructed) :
            /\ invoked[r].constructed[i].max_recursion_depth = config[r].max_recursion_depth
            /\ invoked[r].constructed[i].max_recursion_depth.t = "num"
            /\ invoked[r].constructed[i].max_recursion_depth.n >= 1

\* ------------------------------------------------------------------ C10

HandlerSteps == <<"decode", "split", "invoke", "encode">>

\* The response is a 200 carrying a text, or a 400/500 carrying an error
\* string alone.
WellFormedResponse(resp) ==
    \/ resp.status = 200 /\ ~resp.isError /\ resp.payload.text.t # "missing"
    \/ resp.status \in {400, 500} /\ resp.isError /\ resp.payload = NoCompletion

\* The request decodes: its body is a JSON object with a non-empty messages
\* array (C6: whatever its rlmConfig).
Decodable(b) == HasMessages(b)

\* C10: for each request, under any interleaving: the steps run in the order
\* decode, split, invoke, encode; the engine's completion call is made at
\* most once, exactly once when the request decodes and the engine is there
\* to be called, never on a client error or without the engine; the request
\* ends with exactly one response, a 200 with a text or a 400/500 with an
\* error alone; and requests with the same body and the same engine answer
\* get the same response.
C10_RequestLifecycle ==
    \A r \in Reqs :
        /\ steps[r] = SubSeq(HandlerSteps, 1, Len(steps[r]))
        /\ Len(invoked[r].prompts) <= 1
        /\ Len(invoked[r].constructed) <= 1
        /\ pc[r] # "done" => responses[r] = <<>>
        /\ pc[r] = "done" =>
             /\ Len(responses[r]) = 1
             /\ WellFormedResponse(responses[r][1])
             /\ (responses[r][1].status = 400 \/ engine[r].stage = "import") =>
                    invoked[r].prompts = <<>>
             /\ (Decodable(body[r]) /\ engine[r].stage \notin {"import", "construct"}) =>
                    Len(invoked[r].prompts) = 1
             /\ \A o \in Reqs :
                    (pc[o] = "done" /\ body[o] = body[r] /\ engine[o] = engine[r]) =>
                        responses[o] = responses[r]

====
